---- MODULE Spec2Model ----
(***************************************************************************)
(* A model of scripts/generate_feed.py: one run of main() lists the source *)
(* directory, cleans the output directory, selects `take` files (rotate or *)
(* random), copies them and writes feed.xml.                               *)
(*                                                                         *)
(* Text (file names, URLs) is a sequence of one-character strings, a path  *)
(* is a sequence of names, and the file system is a function from the      *)
(* existing paths to nodes [kind, size].                                   *)
(***************************************************************************)
EXTENDS Integers, Sequences, FiniteSets, TLC

VARIABLES
    mp3_dir,      \* args.mp3_dir, a path
    out_dir,      \* args.out, a path
    num,          \* args.num
    site_arg,     \* args.site_url as given
    mode,         \* args.mode
    today,        \* date.today().toordinal(), the environment's calendar
    fs,           \* the file system
    fs0,          \* the file system when the current run began
    pc,           \* position of the run in main()
    err,          \* the error that ended the run, "" if none
    all_files,    \* main's local all_files
    take,         \* main's local take
    start,        \* main's local start (rotate mode)
    chosen,       \* main's local chosen
    items,        \* main's local items
    feed_doc,     \* what build_feed has written to feed_file in this run
    stdout,       \* the lines printed by this run
    runs,         \* number of runs begun so far
    history       \* one record per selection made by the runs so far

vars == <<mp3_dir, out_dir, num, site_arg, mode, today, fs, fs0, pc, err,
          all_files, take, start, chosen, items, feed_doc, stdout, runs,
          history>>

(***************************************************************************)
(* Bounds of the model.                                                    *)
(***************************************************************************)
MaxFiles == 3     \* entries of the source directory
MaxNum == 3       \* largest --num tried (the smallest is -1)
MaxRuns == 3      \* consecutive daily runs
DaySpan == 2      \* first runs happen on epoch-DaySpan .. epoch+DaySpan

(***************************************************************************)
(* Text.                                                                   *)
(***************************************************************************)
\* Code points of the characters used (Python compares str by code point).
Ord(c) ==
    CASE c = " " -> 32 [] c = "#" -> 35 [] c = "-" -> 45 [] c = "." -> 46
      [] c = "/" -> 47 [] c = "0" -> 48 [] c = "1" -> 49 [] c = "2" -> 50
      [] c = "3" -> 51 [] c = "4" -> 52 [] c = "5" -> 53 [] c = "6" -> 54
      [] c = "7" -> 55 [] c = "8" -> 56 [] c = "9" -> 57
      [] c = "B" -> 66 [] c = "M" -> 77 [] c = "P" -> 80 [] c = "_" -> 95
      [] c = "a" -> 97 [] c = "b" -> 98 [] c = "c" -> 99 [] c = "d" -> 100
      [] c = "e" -> 101 [] c = "f" -> 102 [] c = "h" -> 104 [] c = "l" -> 108
      [] c = "m" -> 109 [] c = "n" -> 110 [] c = "o" -> 111 [] c = "p" -> 112
      [] c = "t" -> 116 [] c = "u" -> 117 [] c = "x" -> 120

\* str.lower() on one character.
LowerChar(c) ==
    CASE c = "B" -> "b" [] c = "M" -> "m" [] c = "P" -> "p" [] OTHER -> c

\* str.lower()
Lower(s) == [i \in 1..Len(s) |-> LowerChar(s[i])]

\* str.endswith(suffix)
EndsWith(s, suffix) ==
    /\ Len(s) >= Len(suffix)
    /\ SubSeq(s, Len(s) - Len(suffix) + 1, Len(s)) = suffix

\* Python's < on str: lexicographic by code point, a proper prefix is smaller.
StrLess(s, t) ==
    \E k \in 0..Len(s) :
        /\ k <= Len(t)
        /\ \A i \in 1..k : s[i] = t[i]
        /\ \/ k = Len(s) /\ k < Len(t)
           \/ k < Len(s) /\ k < Len(t) /\ Ord(s[k+1]) < Ord(t[k+1])

\* sorted(names): the names of a set in ascending order.
RECURSIVE Sorted(_)
Sorted(S) ==
    IF S = {} THEN <<>>
    ELSE LET m == CHOOSE x \in S : \A y \in S \ {x} : StrLess(x, y)
         IN  <<m>> \o Sorted(S \ {m})

\* str.rstrip(ch): drop every trailing ch.
RECURSIVE RStrip(_, _)
RStrip(s, ch) ==
    IF Len(s) > 0 /\ s[Len(s)] = ch THEN RStrip(SubSeq(s, 1, Len(s) - 1), ch)
    ELSE s

\* str.lstrip() / str.strip() for the blank.
RECURSIVE LStrip(_, _)
LStrip(s, ch) ==
    IF Len(s) > 0 /\ s[1] = ch THEN LStrip(Tail(s), ch) ELSE s

Strip(s) == LStrip(RStrip(s, " "), " ")

\* str.replace(old, new) for single characters.
Replace(s, old, new) == [i \in 1..Len(s) |-> IF s[i] = old THEN new ELSE s[i]]

\* str(n) for n >= 0: the decimal digits.
Digit(d) ==
    CASE d = 0 -> "0" [] d = 1 -> "1" [] d = 2 -> "2" [] d = 3 -> "3"
      [] d = 4 -> "4" [] d = 5 -> "5" [] d = 6 -> "6" [] d = 7 -> "7"
      [] d = 8 -> "8" [] d = 9 -> "9"

RECURSIVE IntToStr(_)
IntToStr(k) ==
    IF k < 10 THEN <<Digit(k)>> ELSE IntToStr(k \div 10) \o <<Digit(k % 10)>>

\* os.path.splitext(fn)[0]: drop the extension, which starts at the last dot
\* that is not among the leading dots.
SplitExtRoot(fn) ==
    LET dots == {i \in 1..Len(fn) : fn[i] = "." /\ \E j \in 1..(i-1) : fn[j] # "."}
    IN  IF dots = {} THEN fn
        ELSE LET last == CHOOSE i \in dots : \A j \in dots : j <= i
             IN  SubSeq(fn, 1, last - 1)

\* sanitize_title(fn)
sanitize_title(fn) ==
    Strip(Replace(Replace(SplitExtRoot(fn), "_", " "), "-", " "))

Range(s) == {s[i] : i \in 1..Len(s)}

(***************************************************************************)
(* Paths and the file system.                                              *)
(***************************************************************************)
NoFs == [p \in {} |-> 0]

DirNode == [kind |-> "dir", size |-> 0]
FileNode(sz) == [kind |-> "file", size |-> sz]

\* p is q or an ancestor of q.
IsPrefix(p, q) == Len(p) <= Len(q) /\ SubSeq(q, 1, Len(p)) = p

\* os.path.join(dir, name)
Join(dir, name) == Append(dir, name)

\* os.path.exists(p)
Exists(f, p) == p \in DOMAIN f

\* os.path.isdir(p)
IsDir(f, p) == p \in DOMAIN f /\ f[p].kind = "dir"

IsFile(f, p) == p \in DOMAIN f /\ f[p].kind = "file"

\* os.listdir(p): the names of the entries of directory p.
ListDir(f, p) ==
    {q[Len(q)] : q \in {r \in DOMAIN f : Len(r) = Len(p) + 1 /\ IsPrefix(p, r)}}

\* The tree at p left as it is.
KeepTree(f, p) == f

\* shutil.rmtree(p): p and everything below it are gone.
RmTree(f, p) == [q \in {r \in DOMAIN f : ~IsPrefix(p, r)} |-> f[q]]

\* os.makedirs(p, exist_ok=True): p and its missing ancestors become directories.
MakeDirs(f, p) ==
    LET anc == {SubSeq(p, 1, k) : k \in 1..Len(p)}
    IN  [q \in DOMAIN f \cup anc |-> IF q \in DOMAIN f THEN f[q] ELSE DirNode]

\* makedirs raises when p or an ancestor of p exists and is no directory.
MakeDirsOk(f, p) ==
    \A k \in 1..Len(p) :
        Exists(f, SubSeq(p, 1, k)) => IsDir(f, SubSeq(p, 1, k))

\* A file of sz bytes is created at p or replaces the file there.
WriteFile(f, p, sz) ==
    [q \in DOMAIN f \cup {p} |-> IF q = p THEN FileNode(sz) ELSE f[q]]

\* shutil.move(src, dst): the file leaves src.
Move(f, src, dst) ==
    [q \in (DOMAIN f \cup {dst}) \ {src} |-> IF q = dst THEN f[src] ELSE f[q]]

\* shutil.copy2(src, dst): dst becomes a file with the content of src.
Copy2(f, src, dst) == WriteFile(f, dst, f[src].size)

\* copy2 raises unless src is a regular file and dst can be written.
Copy2Ok(f, src, dst) ==
    /\ IsFile(f, src)
    /\ ~IsDir(f, dst)
    /\ IsDir(f, SubSeq(dst, 1, Len(dst) - 1))

\* os.path.getsize(p)
GetSize(f, p) == f[p].size

\* The entries at and below directory p, with their nodes.
Tree(f, p) == [q \in {r \in DOMAIN f : IsPrefix(p, r)} |-> f[q]]

(***************************************************************************)
(* The names and arguments the runs are tried on.                          *)
(***************************************************************************)
Mp3Suffix == <<".", "m", "p", "3">>
FeedName == <<"f", "e", "e", "d", ".", "x", "m", "l">>
dMp3 == <<"m", "p", "3">>
dPub == <<"p", "u", "b">>

\* Entries a source directory may hold: "B.MP3", "a.mp3", "c_d.mp3",
\* "e.mp3" and "n.txt".
SourceNames ==
    { <<"B", ".", "M", "P", "3">>,
      <<"a", ".", "m", "p", "3">>,
      <<"c", "_", "d", ".", "m", "p", "3">>,
      <<"e", ".", "m", "p", "3">>,
      <<"n", ".", "t", "x", "t">> }

\* The size of the source file of each name.
SourceSize(name) == Ord(name[1]) - 60

\* What an output directory left by an earlier deployment holds.
StaleNames == { <<"a", ".", "m", "p", "3">>, <<"n", ".", "t", "x", "t">>, FeedName }

\* (mp3_dir, out_dir): unrelated, the same, out_dir inside mp3_dir, and
\* mp3_dir inside out_dir.
DirPairs ==
    { <<  <<dMp3>>, <<dPub>>  >>,
      <<  <<dMp3>>, <<dMp3>>  >>,
      <<  <<dMp3>>, <<dMp3, dPub>>  >>,
      <<  <<dPub, dMp3>>, <<dPub>>  >> }

SiteUrls == { <<"h">>, <<"h", "/", "/">> }

Modes == {"rotate", "random"}

\* date(2020,1,1).toordinal()
Epoch == 737425

RECURSIVE AddFiles(_, _, _)
AddFiles(f, dir, names) ==
    IF names = {} THEN f
    ELSE LET nm == CHOOSE x \in names : TRUE
         IN  AddFiles(WriteFile(f, Join(dir, nm), SourceSize(nm)), dir, names \ {nm})

RECURSIVE AddStale(_, _, _)
AddStale(f, dir, names) ==
    IF names = {} THEN f
    ELSE LET nm == CHOOSE x \in names : TRUE
         IN  AddStale(WriteFile(f, Join(dir, nm), 1), dir, names \ {nm})

\* Every entry lies in a directory.
WellFormed(f) ==
    \A p \in DOMAIN f : Len(p) > 1 => IsDir(f, SubSeq(p, 1, Len(p) - 1))

\* The file system before the first run: the source directory, when present,
\* with the entries `names`; the output path absent, a regular file, or a
\* directory left by an earlier deployment.
InitialFs(src, out, srcThere, names, outKind) ==
    LET f1 == IF srcThere THEN AddFiles(MakeDirs(NoFs, src), src, names) ELSE NoFs
        f2 == CASE outKind = "absent" -> f1
                [] outKind = "file" ->
                       IF Exists(f1, out) THEN f1 ELSE WriteFile(f1, out, 1)
                [] outKind = "dir" ->
                       IF MakeDirsOk(f1, out) /\ (IsPrefix(src, out) => srcThere)
                       THEN AddStale(MakeDirs(f1, out), out, StaleNames \ ListDir(f1, out))
                       ELSE f1
    IN  f2

NoDoc == [written |-> FALSE, complete |-> FALSE, link |-> <<>>, items |-> <<>>]

Init ==
    /\ \E pair \in DirPairs :
          /\ mp3_dir = pair[1]
          /\ out_dir = pair[2]
    /\ num \in -1..MaxNum
    /\ site_arg \in SiteUrls
    /\ mode \in Modes
    /\ today \in (Epoch - DaySpan)..(Epoch + DaySpan)
    /\ \E srcThere \in BOOLEAN, outKind \in {"absent", "file", "dir"} :
          \E names \in {S \in SUBSET SourceNames : Cardinality(S) <= MaxFiles} :
              fs = InitialFs(mp3_dir, out_dir, srcThere, names, outKind)
    /\ WellFormed(fs)
    /\ fs0 = fs
    /\ pc = "start"
    /\ err = ""
    /\ all_files = <<>>
    /\ take = 0
    /\ start = 0
    /\ chosen = <<>>
    /\ items = <<>>
    /\ feed_doc = NoDoc
    /\ stdout = <<>>
    /\ runs = 1
    /\ history = <<>>

(***************************************************************************)
(* Selection (main, lines 76-91).                                          *)
(***************************************************************************)
Min(a, b) == IF a <= b THEN a ELSE b

\* a modulo m with the sign of a, as C's % computes it.
TruncMod(a, m) == IF a >= 0 THEN a % m ELSE -((-a) % m)

\* Python's a % m for m > 0: the result lies in 0..m-1 for every integer a.
PyMod(a, m) == a - m * (a \div m)

IndexError == <<"?">>

\* Python's l[i] for a list: 0-based, a negative i counts from the end.
PyIndex(l, i) ==
    IF 0 <= i /\ i < Len(l) THEN l[i + 1]
    ELSE IF -Len(l) <= i /\ i < 0 THEN l[Len(l) + i + 1]
    ELSE IndexError

\* f.lower().endswith('.mp3')
IsMp3(name) == EndsWith(Lower(name), Mp3Suffix)

\* [f for f in sorted(os.listdir(mp3_dir)) if f.lower().endswith('.mp3')]
ListPool(f, dir) == SelectSeq(Sorted(ListDir(f, dir)), IsMp3)

\* take = min(num, n)
Take(count, n) == Min(count, n)

\* start = (today_index * take) % n with a truncating modulo.
RotateStartTrunc(day_index, tk, n) == TruncMod(day_index * tk, n)

\* start = today_index % n: the window advances by one file a day.
RotateStartByOne(day_index, tk, n) == PyMod(day_index, n)

\* start = (today_index * take) % n
RotateStart(day_index, tk, n) == PyMod(day_index * tk, n)

\* chosen = [all_files[(start + i) % n] for i in range(take)]
RotateWindow(pool, st, tk) ==
    [i \in 1..tk |-> PyIndex(pool, PyMod(st + (i - 1), Len(pool)))]

\* Samples drawn with replacement, as random.choices would return.
RandomChoices(pool, tk) == [1..tk -> Range(pool)]

\* random.sample(pool, tk) for 0 <= tk <= len(pool): every arrangement of tk
\* distinct positions of pool.
RandomSamples(pool, tk) ==
    { [i \in 1..tk |-> pool[pos[i]]] :
        pos \in {q \in [1..tk -> 1..Len(pool)] :
                    \A i, j \in 1..tk : i # j => q[i] # q[j]} }

\* random.sample raises ValueError for these.
SampleRaises(pool, tk) == tk < 0 \/ tk > Len(pool)

(***************************************************************************)
(* Items and the feed (main, lines 93-108; build_feed).                    *)
(***************************************************************************)
\* site_url = args.site_url without rstrip.
SiteUrlRaw(arg) == arg

\* site_url = args.site_url.rstrip('/')
SiteUrl(arg) == RStrip(arg, "/")

\* url = f"{site_url}/{fn}"
ItemUrl(site, fn) == site \o <<"/">> \o fn

\* The dict appended to items for fn, once fn is copied to dst.
MakeItem(f, site, fn, dst) ==
    [ filename |-> fn,
      title |-> sanitize_title(fn),
      length |-> IntToStr(GetSize(f, dst)),
      url |-> ItemUrl(site, fn) ]

\* guid = f"{it['url']}#{it['filename']}"
Guid(it) == it.url \o <<"#">> \o it.filename

\* One <item> element.
ItemElement(it) ==
    [ title |-> it.title,
      guid |-> Guid(it),
      enclosure_url |-> it.url,
      enclosure_length |-> it.length ]

\* The <item> elements build_feed writes, in the order of its loop.
FeedItems(its) == [i \in 1..Len(its) |-> ItemElement(its[i])]

\* The document build_feed writes (the time stamps are left out).
FeedDoc(its, channel_link) ==
    [ written |-> TRUE, complete |-> TRUE, link |-> channel_link,
      items |-> FeedItems(its) ]

\* The document left by a build_feed that failed after k items.
PartialDoc(its, channel_link, k) ==
    [ written |-> TRUE, complete |-> FALSE, link |-> channel_link,
      items |-> SubSeq(FeedItems(its), 1, k) ]

(***************************************************************************)
(* The steps of main().                                                    *)
(***************************************************************************)
args == <<mp3_dir, out_dir, num, site_arg, mode>>
locals == <<all_files, take, start, chosen, items>>

\* The error is recorded and the run goes on.
FailContinue(e) ==
    /\ pc' = pc
    /\ err' = e

\* An uncaught exception or SystemExit: the run ends here.
Fail(e) ==
    /\ pc' = "failed"
    /\ err' = e

\* The test of line 68 left out.
SourceCheckSkipped(f, dir) == FALSE

\* not os.path.isdir(mp3_dir)
SourceMissing(f, dir) == ~IsDir(f, dir)

\* Lines 68-69: the source directory must be a directory.
CheckSource ==
    /\ pc = "start"
    /\ IF SourceMissing(fs, mp3_dir)
         THEN Fail("mp3 dir not found")
         ELSE pc' = "clean" /\ err' = err
    /\ UNCHANGED <<args, today, fs, fs0, locals, feed_doc, stdout, runs, history>>

\* The tree that line 73 removes.
CleanTarget == out_dir

\* Lines 72-74: remove the output directory and create it again.
CleanOutput ==
    /\ pc = "clean"
    /\ IF Exists(fs, CleanTarget) /\ ~IsDir(fs, CleanTarget)
         THEN \* rmtree raises NotADirectoryError
              Fail("OSError") /\ fs' = fs
         ELSE LET f1 == IF Exists(fs, CleanTarget) THEN RmTree(fs, CleanTarget) ELSE fs
              IN  IF MakeDirsOk(f1, out_dir)
                    THEN fs' = MakeDirs(f1, out_dir) /\ pc' = "list" /\ err' = err
                    ELSE fs' = f1 /\ Fail("OSError")
    /\ UNCHANGED <<args, today, fs0, locals, feed_doc, stdout, runs, history>>

\* Lines 76-78: list the pool; an empty pool ends the run.
ListSource ==
    /\ pc = "list"
    /\ IF ~IsDir(fs, mp3_dir)
         THEN \* os.listdir raises FileNotFoundError
              Fail("OSError") /\ all_files' = all_files
         ELSE /\ all_files' = ListPool(fs, mp3_dir)
              /\ IF all_files' = <<>>
                   THEN Fail("No mp3 files found in mp3_dir")
                   ELSE pc' = "select" /\ err' = err
    /\ UNCHANGED <<args, today, fs, fs0, take, start, chosen, items, feed_doc,
                   stdout, runs, history>>

Selected(sel, st) ==
    /\ chosen' = sel
    /\ start' = st
    /\ pc' = "copy"
    /\ err' = err
    /\ history' = Append(history,
                         [ pool |-> all_files, take |-> take', mode |-> mode,
                           day |-> today - Epoch, start |-> st, chosen |-> sel ])

\* Lines 80-91: take = min(num, n), then the sample or the day's window.
Select ==
    /\ pc = "select"
    /\ take' = Take(num, Len(all_files))
    /\ IF mode = "random"
         THEN IF SampleRaises(all_files, take')
                THEN /\ Fail("ValueError")
                     /\ UNCHANGED <<chosen, start, history>>
                ELSE \E sel \in RandomSamples(all_files, take') :
                        Selected(sel, start)
         ELSE LET st == RotateStart(today - Epoch, take', Len(all_files))
              IN  Selected(RotateWindow(all_files, st, take'), st)
    /\ UNCHANGED <<args, today, fs, fs0, all_files, items, feed_doc, stdout, runs>>

\* Lines 94-105: one turn of the copy loop. The copy may fail for a reason
\* outside the program (permissions, disk space); the destination is then
\* absent or truncated.
CopyOne ==
    /\ pc = "copy"
    /\ Len(items) < Len(chosen)
    /\ LET fn == chosen[Len(items) + 1]
           src == Join(mp3_dir, fn)
           dst == Join(out_dir, fn)
       IN  \/ /\ Copy2Ok(fs, src, dst)
              /\ fs' = Copy2(fs, src, dst)
              /\ items' = Append(items, MakeItem(fs', SiteUrl(site_arg), fn, dst))
              /\ UNCHANGED <<pc, err>>
           \/ /\ \/ fs' = fs
                 \/ Copy2Ok(fs, src, dst) /\ fs' = WriteFile(fs, dst, 0)
              /\ items' = items
              /\ Fail("OSError")
    /\ UNCHANGED <<args, today, fs0, all_files, take, start, chosen, feed_doc,
                   stdout, runs, history>>

\* Lines 107-109: write feed.xml, then print the summary. A failed write
\* leaves no feed.xml or a truncated one. The size of feed.xml is not
\* modelled (its node has size 0); its content is feed_doc.
BuildFeed ==
    /\ pc = "copy"
    /\ Len(items) = Len(chosen)
    /\ LET feed_file == Join(out_dir, FeedName)
       IN  \/ /\ fs' = WriteFile(fs, feed_file, 0)
              /\ feed_doc' = FeedDoc(items, site_arg)
              /\ stdout' = Append(stdout, [count |-> Len(items), path |-> feed_file])
              /\ pc' = "done"
              /\ err' = err
           \/ /\ \/ fs' = fs /\ feed_doc' = feed_doc
                 \/ \E k \in 0..Len(items) :
                       /\ fs' = WriteFile(fs, feed_file, 0)
                       /\ feed_doc' = PartialDoc(items, site_arg, k)
              /\ stdout' = stdout
              /\ Fail("OSError")
    /\ UNCHANGED <<args, today, fs0, locals, runs, history>>

\* The next day's run begins (the script is run once a day).
NextDay ==
    /\ pc \in {"done", "failed"}
    /\ runs < MaxRuns
    /\ runs' = runs + 1
    /\ today' = today + 1
    /\ fs0' = fs
    /\ pc' = "start"
    /\ err' = ""
    /\ all_files' = <<>>
    /\ take' = 0
    /\ start' = 0
    /\ chosen' = <<>>
    /\ items' = <<>>
    /\ feed_doc' = NoDoc
    /\ stdout' = <<>>
    /\ UNCHANGED <<args, fs, history>>

Next ==
    \/ CheckSource
    \/ CleanOutput
    \/ ListSource
    \/ Select
    \/ CopyOne
    \/ BuildFeed

Spec == Init /\ [][Next]_vars

(***************************************************************************)
(* The script run once a day, MaxRuns days in a row.                       *)
(***************************************************************************)
NextDaily ==
    \/ Next
    \/ NextDay

\* The daily runs are followed in rotate mode, the mode whose selection
\* depends on the day.
InitDaily ==
    /\ Init
    /\ mode = "rotate"
    /\ site_arg = <<"h">>

SpecDaily == InitDaily /\ [][NextDaily]_vars

(***************************************************************************)
(* Properties.                                                             *)
(***************************************************************************)
\* Neither directory is the other or lies inside the other.
Unrelated == ~IsPrefix(mp3_dir, out_dir) /\ ~IsPrefix(out_dir, mp3_dir)

Ended == pc \in {"done", "failed"}

Injective(s) == \A i, j \in 1..Len(s) : i # j => s[i] # s[j]

\* The number a sequence of decimal digits denotes.
RECURSIVE StrToInt(_)
StrToInt(d) ==
    IF d = <<>> THEN 0
    ELSE 10 * StrToInt(SubSeq(d, 1, Len(d) - 1)) + (Ord(d[Len(d)]) - Ord("0"))

\* The regular files of the source directory, with their sizes.
SourceFiles(f) ==
    [nm \in {x \in ListDir(f, mp3_dir) : IsFile(f, Join(mp3_dir, x))} |->
        f[Join(mp3_dir, nm)].size]

\* The source directory held an entry with a .mp3 suffix (any case) when the
\* run began.
HadMp3 == \E nm \in ListDir(fs0, mp3_dir) : IsMp3(nm)

\* fn of the pool has been copied to the output directory in full.
Copied(fn) ==
    /\ IsFile(fs, Join(out_dir, fn))
    /\ fs[Join(out_dir, fn)].size = fs0[Join(mp3_dir, fn)].size

\* C1: when the source directory exists but holds no file with a .mp3
\* suffix, the run does not succeed and the output directory always holds
\* exactly what it held when the run began (stated for two unrelated
\* directories, so that no overlap of the two paths is involved).
C1_EmptyPoolLeavesOutputUntouched ==
    (IsDir(fs0, mp3_dir) /\ ~HadMp3 /\ Unrelated)
        => /\ pc # "done"
           /\ Tree(fs, out_dir) = Tree(fs0, out_dir)

\* C2: with count <= 0 and a non-empty pool, in both modes the selection is
\* empty and valid: the run does not fail in the selection, and a run that
\* completes has copied no audio file and written a feed with zero items.
C2_NonPositiveCountIsEmptySelection ==
    (num <= 0 /\ all_files # <<>> /\ pc \in {"copy", "done", "failed"})
        => /\ err # "ValueError"
           /\ chosen = <<>>
           /\ pc = "done" =>
                 /\ feed_doc.items = <<>>
                 /\ ListDir(fs, out_dir) = {FeedName}

Pool5 == <<"p0", "p1", "p2", "p3", "p4">>

\* C3: in rotate mode with 1 <= take <= N, start is the floor-modulo of
\* dayIndex * take by N (so 0 <= start < N, also before the epoch), the
\* selection is the window chosen[i] = pool[(start + i) mod N] of take
\* pairwise distinct names; for N = 5 and take = 2, day 0 selects
\* pool[0], pool[1] and day 1 selects pool[2], pool[3].
C3_RotateIsCircularWindow ==
    /\ (mode = "rotate" /\ take >= 1) =>
          LET N == Len(all_files)
              d == today - Epoch
          IN  /\ N >= 1 /\ take <= N
              /\ start \in 0..(N - 1)
              /\ \E k \in -(DaySpan + MaxRuns + 1)..(DaySpan + MaxRuns + 1) :
                    d * take = k * N + start
              /\ Len(chosen) = take
              /\ \A i \in 0..(take - 1) :
                    chosen[i + 1] = all_files[((start + i) % N) + 1]
              /\ Injective(chosen)
    /\ RotateWindow(Pool5, RotateStart(0, 2, 5), 2) = <<"p0", "p1">>
    /\ RotateWindow(Pool5, RotateStart(1, 2, 5), 2) = <<"p2", "p3">>

\* C3 witness: a run before the epoch whose window of two or more files
\* wraps around the end of the pool.
C3_Witness ==
    /\ mode = "rotate" /\ pc = "done"
    /\ today < Epoch
    /\ take >= 2
    /\ start + take > Len(all_files)
    /\ start > 0

\* C4: for a non-empty pool and count >= 1, in both modes the selection
\* holds exactly min(count, N) pairwise distinct names of the pool, and the
\* selection does not fail (so count > N selects the whole pool).
C4_SelectionSizeDistinctFromPool ==
    (num >= 1 /\ all_files # <<>> /\ pc \in {"copy", "done", "failed"})
        => LET N == Len(all_files)
           IN  /\ err # "ValueError"
               /\ Len(chosen) = (IF num <= N THEN num ELSE N)
               /\ Injective(chosen)
               /\ Range(chosen) \subseteq Range(all_files)
               /\ Range(all_files) \subseteq ListDir(fs0, mp3_dir)
               /\ num > N => Range(chosen) = Range(all_files)

\* C4 witness: a random run with count > N >= 2 that selected the whole
\* pool in another order than the pool's.
C4_Witness ==
    /\ mode = "random" /\ pc = "done"
    /\ Len(all_files) >= 2
    /\ num > Len(all_files)
    /\ Range(chosen) = Range(all_files)
    /\ chosen # all_files

\* C5: after a successful run the entries of the output directory are
\* exactly the chosen names and feed.xml; each chosen file is a full copy.
C5_OutputIsChosenPlusFeed ==
    pc = "done" =>
        /\ ListDir(fs, out_dir) = Range(chosen) \cup {FeedName}
        /\ \A i \in 1..Len(chosen) : Copied(chosen[i])
        /\ IsFile(fs, Join(out_dir, FeedName))

\* C5 witness: a successful run over an output directory that held, before
\* the run, entries the run did not choose.
C5_Witness ==
    /\ pc = "done"
    /\ chosen # <<>>
    /\ IsDir(fs0, out_dir)
    /\ \E nm \in ListDir(fs0, out_dir) : nm \notin Range(chosen) \cup {FeedName}

\* C6: the feed holds one item per chosen file in the order of the
\* selection; item i's enclosure URL is the base URL without its trailing
\* slashes, "/", the file name; its length is the size of the copy in the
\* output directory; its guid is that URL, "#", the file name.
C6_FeedItemsFollowSelection ==
    pc = "done" =>
        /\ feed_doc.written /\ feed_doc.complete
        /\ Len(feed_doc.items) = Len(chosen)
        /\ \E k \in 0..Len(site_arg) :
              /\ k > 0 => site_arg[k] # "/"
              /\ \A j \in (k + 1)..Len(site_arg) : site_arg[j] = "/"
              /\ \A i \in 1..Len(chosen) :
                    LET it == feed_doc.items[i]
                        url == SubSeq(site_arg, 1, k) \o <<"/">> \o chosen[i]
                    IN  /\ it.enclosure_url = url
                        /\ it.guid = url \o <<"#">> \o chosen[i]
                        /\ StrToInt(it.enclosure_length)
                              = fs[Join(out_dir, chosen[i])].size
                        /\ it.enclosure_length[1] # "0"

\* C6 witness: a successful run with a base URL ending in slashes and two
\* or more files selected in another order than the pool's.
C6_Witness ==
    /\ pc = "done"
    /\ Len(chosen) >= 2
    /\ site_arg[Len(site_arg)] = "/"
    /\ chosen # SubSeq(all_files, 1, Len(chosen))
    /\ \E i \in 1..Len(chosen) : Len(feed_doc.items[i].enclosure_length) = 1

C7_State ==
    /\ err # "" <=> pc = "failed"
    /\ feed_doc.written =>
          /\ Len(items) = Len(chosen)
          /\ \A i \in 1..Len(chosen) : Copied(chosen[i])
    /\ stdout # <<>> <=> pc = "done"
    /\ pc = "done" =>
          /\ feed_doc.complete
          /\ IsFile(fs, Join(out_dir, FeedName))
          /\ \A i \in 1..Len(chosen) : Copied(chosen[i])
    /\ (feed_doc.written /\ ~feed_doc.complete) => pc = "failed"
    /\ \A i \in 1..Len(items) : Copied(items[i].filename)

C7_Step ==
    /\ pc = "failed" => UNCHANGED vars
    /\ pc = "done" => UNCHANGED vars
    /\ Len(items) <= Len(items') /\ SubSeq(items', 1, Len(items)) = items

\* C7: no partial success. Success (the summary printed) is reported only
\* with every chosen file copied and the feed written in full; feed.xml is
\* never written while a chosen file is uncopied; a failure ends the run
\* with an error, and nothing (no retry, no further copy, no feed, no
\* summary) happens after it.
C7_NoPartialSuccess == [](C7_State) /\ [][C7_Step]_vars

\* C7 witness: a run aborted by a failed copy after an earlier copy
\* succeeded: the failed file is not in the output directory in full, and
\* there is no feed and no summary.
C7_Witness ==
    /\ pc = "failed"
    /\ 0 < Len(items) /\ Len(items) + 1 < Len(chosen)
    /\ IsFile(fs, Join(out_dir, chosen[Len(items) + 1]))
    /\ ~Copied(chosen[Len(items) + 1])
    /\ ~feed_doc.written
    /\ stdout = <<>>

\* C8: when the source directory does not exist, the run ends with the
\* error "mp3 dir not found" and the file system is never changed: the
\* output directory is neither removed, created nor written, and there is
\* no feed.
C8_MissingSourceChangesNothing ==
    ~IsDir(fs0, mp3_dir) =>
        /\ fs = fs0
        /\ pc \in {"start", "failed"}
        /\ pc = "failed" => err = "mp3 dir not found"
        /\ ~feed_doc.written
        /\ items = <<>>

\* C8 witness: a run ended by the missing source directory while the output
\* directory of an earlier deployment exists.
C8_Witness ==
    /\ pc = "failed"
    /\ err = "mp3 dir not found"
    /\ ~Exists(fs0, mp3_dir)
    /\ IsDir(fs0, out_dir)
    /\ ListDir(fs, out_dir) # {}

\* C9 as claimed: when a run ends, the source directory holds exactly the
\* files it held when the run began, whatever the two paths are.
C9_SourceNeverAltered ==
    Ended => SourceFiles(fs) = SourceFiles(fs0)

\* C9 as amended: when a run ends, the source directory holds exactly the
\* files it held when the run began, provided the output path is neither
\* the source directory nor a directory containing it.
C9_SourceKeptUnlessOutputCoversIt ==
    (Ended /\ ~IsPrefix(out_dir, mp3_dir)) => SourceFiles(fs) = SourceFiles(fs0)

\* C9 witness: a successful run that copied files into an output directory
\* lying inside the source directory.
C9_Witness ==
    /\ pc = "done"
    /\ IsPrefix(mp3_dir, out_dir) /\ mp3_dir # out_dir
    /\ Len(items) >= 2
    /\ IsDir(fs0, out_dir)

\* The selections i .. i+k-1 of the history were made on consecutive days
\* in rotate mode with the same pool and the same take.
SameRotation(i, k) ==
    /\ i + k - 1 <= Len(history)
    /\ \A j \in i..(i + k - 1) :
          /\ history[j].mode = "rotate"
          /\ history[j].pool = history[i].pool
          /\ history[j].take = history[i].take
          /\ history[j].day = history[i].day + (j - i)

\* C10: in rotate mode with the pool and take >= 1 unchanged, the window of
\* day d+1 starts where the window of day d ends, and any ceil(N / take)
\* consecutive daily runs select every file of the pool.
C10_RotationCoversPool ==
    \A i \in 1..Len(history) :
        LET N == Len(history[i].pool)
            t == history[i].take
            k == (N + t - 1) \div t
        IN  t >= 1 =>
              /\ SameRotation(i, 2) =>
                    history[i + 1].start = (history[i].start + t) % N
              /\ SameRotation(i, k) =>
                    UNION {Range(history[j].chosen) : j \in i..(i + k - 1)}
                        = Range(history[i].pool)

\* C10 witness: three consecutive daily runs across the epoch over a pool of
\* three files, two a day.
C10_Witness ==
    /\ Len(history) >= 3
    /\ SameRotation(1, 3)
    /\ Len(history[1].pool) = 3
    /\ history[1].take = 2
    /\ history[1].day < 0
    /\ pc = "done"

====
